---- MODULE Spec2Model ----
(***************************************************************************)
(* Model of the BIS data backend (py_BIS): the XML observation parser, the *)
(* remote fetchers, and the request handlers of the FastAPI applications   *)
(* BIS.py (table + chart), main.py (table), chart.py (chart) and           *)
(* BISapps.py (/bis).  Spec is the server: worker threads that receive     *)
(* requests, wait for stats.bis.org to answer their outbound GET and       *)
(* produce the HTTP response.  SpecHandler follows one call of a handler   *)
(* from its entry, through the wait for the answer to its GET, to its      *)
(* return; the other specifications apply one step of a handler to its     *)
(* inputs.                                                                 *)
(***************************************************************************)
EXTENDS Integers, Sequences, FiniteSets, TLC

VARIABLES
    threads,    \* the call each worker thread of the server is running
    plot_ts,    \* module global of BIS.py: None when the import of plot/plotly failed
    WIDGETS,    \* module global of BIS.py and main.py: the widget registry
    fill_method, \* the default fill_method of pct_change in the installed pandas:
                \* Some("pad") before pandas 3, None from pandas 3 on
    pc,         \* "ready" | "waiting" | "done" (handler calls) ; "input" | "parsed" (parser runs)
    request,    \* the request of the call: endpoint and query parameters
    upstream,   \* what the remote API answers to the single outbound GET
    fetched,    \* what the fetcher call gave its caller (None: not called)
    parsed,     \* what the parser call gave its caller (None: not called)
    pivoted,    \* what the df.pivot call gave the chart handler (None: not called)
    outcome,    \* what the handler call gave the framework (None: not called)
    response    \* the HTTP response on the wire (None: not sent)

vars == <<threads, plot_ts, WIDGETS, fill_method, pc, request, upstream, fetched, parsed, pivoted, outcome, response>>

(***************************************************************************)
(* Python values.  An optional value is None or Some(v); a call either     *)
(* returns a value or raises an exception.                                 *)
(***************************************************************************)
None == <<>>
Some(v) == <<v>>
Get(o) == o[1]

Return(v) == [raised |-> None, value |-> Some(v)]
Raise(e) == [raised |-> Some(e), value |-> None]
Raised(r) == r.raised # None
Val(r) == Get(r.value)
Exc(r) == Get(r.raised)

\* An exception: its class, the status code (HTTPException only, else 0) and
\* the pieces of its message / detail string.
Exception(type, msg) == [type |-> type, status_code |-> 0, detail |-> <<msg>>]
str(e) == e.detail[Len(e.detail)]

\* The classes derived from requests.exceptions.RequestException (JSONDecodeError
\* is one of them from requests 2.27 on).
RequestExceptions ==
    { "requests.exceptions.ConnectionError",
      "requests.exceptions.Timeout",
      "requests.exceptions.HTTPError",
      "requests.exceptions.JSONDecodeError" }

\* Python strings are TLA+ strings.  piece in s:
contains(s, piece) ==
    \E i \in 1..(Len(s) - Len(piece) + 1) : SubSeq(s, i, i + Len(piece) - 1) = piece

\* s.lower(), on ASCII letters.
UpperCase == "ABCDEFGHIJKLMNOPQRSTUVWXYZ"
LowerCase == "abcdefghijklmnopqrstuvwxyz"
lower_char(ch) ==
    IF \E i \in 1..Len(UpperCase) : SubSeq(UpperCase, i, i) = ch
    THEN LET i == CHOOSE j \in 1..Len(UpperCase) : SubSeq(UpperCase, j, j) = ch
         IN  SubSeq(LowerCase, i, i)
    ELSE ch

RECURSIVE lower(_)
lower(s) ==
    IF Len(s) = 0 THEN s
    ELSE lower_char(SubSeq(s, 1, 1)) \o lower(SubSeq(s, 2, Len(s)))

\* Truthiness of an optional string: None and "" are falsy.
Truthy(o) == o # None /\ o # Some("")

(***************************************************************************)
(* Bounds of the model.                                                    *)
(***************************************************************************)
MaxSeries == 2      \* Series elements per document
MaxObs == 3         \* Obs elements per document, parser runs
MaxRows == 2        \* Obs elements per upstream payload, server runs

(***************************************************************************)
(* Response bodies.  A body is a well-formed XML document, a JSON text or   *)
(* neither.  A well-formed document                                        *)
(* holds Series elements, each with an optional BORROWERS_CTY attribute    *)
(* and child Obs elements, each with optional TIME_PERIOD and OBS_VALUE    *)
(* attributes.  (An absent attribute is None: Element.get returns None.)   *)
(***************************************************************************)
Obs(tp, v) == [TIME_PERIOD |-> tp, OBS_VALUE |-> v]
Series(cty, obs) == [BORROWERS_CTY |-> cty, Obs |-> obs]
Document(series) == [wellformed |-> TRUE, Series |-> series, json |-> None]
Malformed == [wellformed |-> FALSE, Series |-> <<>>, json |-> None]
\* The text of the JSON value v: no XML.
JsonText(v) == [wellformed |-> FALSE, Series |-> <<>>, json |-> Some(v)]

\* All sequences of at most k Series elements holding at most t Obs elements in
\* total, over the given attribute values.
RECURSIVE SeriesSeqs(_, _, _, _)
SeriesSeqs(k, t, ctys, obsSet) ==
    IF k = 0 THEN { <<>> }
    ELSE { <<>> } \cup
         UNION { { <<Series(c, o)>> \o rest :
                     c \in ctys, o \in [1..m -> obsSet],
                     rest \in SeriesSeqs(k - 1, t - m, ctys, obsSet) } :
                 m \in 0..t }

\* The flat list of the Obs elements of a document, in document order, each
\* paired with the BORROWERS_CTY attribute of its enclosing Series.
RECURSIVE ObsInOrder(_)
ObsInOrder(series) ==
    IF series = <<>> THEN <<>>
    ELSE [i \in 1..Len(Head(series).Obs) |->
             [cty |-> Head(series).BORROWERS_CTY, obs |-> Head(series).Obs[i]]]
         \o ObsInOrder(Tail(series))

(***************************************************************************)
(* float(): the strings of the model that Python's float accepts, with     *)
(* their values; any other string raises ValueError.                       *)
(***************************************************************************)
NumericStrings == { "100", "110" }

float(s) ==
    IF s \in NumericStrings
    THEN Return(CASE s = "100" -> 100 [] s = "110" -> 110)
    ELSE Raise(Exception("ValueError", "could not convert string to float"))

\* ET.fromstring(xml_text)
ET_fromstring(xml_text) ==
    IF xml_text.wellformed
    THEN Return(xml_text.Series)
    ELSE Raise(Exception("xml.etree.ElementTree.ParseError", "syntax error"))

(***************************************************************************)
(* parse_bis_xml (BIS.py, main.py; parse_bis_xml_df and chart.py's         *)
(* parse_bis_xml run the same loops and wrap the list in a DataFrame).     *)
(***************************************************************************)
\* series.get('BORROWERS_CTY', 'Unknown')
country_code(series) ==
    IF series.BORROWERS_CTY = None THEN "Unknown" ELSE Get(series.BORROWERS_CTY)

\* float(obs.get('OBS_VALUE')) if obs.get('OBS_VALUE') else None
obs_value_unguarded(obs) ==
    IF obs.OBS_VALUE = None
    THEN Raise(Exception("TypeError", "float() argument must be a string or a number"))
    ELSE LET f == float(Get(obs.OBS_VALUE))
         IN  IF Raised(f) THEN f ELSE Return(Some(Val(f)))

obs_value(obs) ==
    IF Truthy(obs.OBS_VALUE)
    THEN LET f == float(Get(obs.OBS_VALUE))
         IN  IF Raised(f) THEN f ELSE Return(Some(Val(f)))
    ELSE Return(None)

\* for obs in series.findall('Obs'): data.append({...})
RECURSIVE obs_loop(_, _, _)
obs_loop_dedup(obs, cc, data) ==
    IF obs = <<>> THEN Return(data)
    ELSE LET v == obs_value(Head(obs))
             rec == [Date |-> Head(obs).TIME_PERIOD, Value |-> Val(v), Country |-> cc]
         IN  IF Raised(v) THEN v
             ELSE IF data # <<>> /\ data[Len(data)] = rec
                  THEN obs_loop(Tail(obs), cc, data)
                  ELSE obs_loop(Tail(obs), cc, Append(data, rec))

obs_loop(obs, cc, data) ==
    IF obs = <<>> THEN Return(data)
    ELSE LET v == obs_value(Head(obs))
         IN  IF Raised(v) THEN v
             ELSE obs_loop(Tail(obs), cc,
                      Append(data, [Date |-> Head(obs).TIME_PERIOD,
                                    Value |-> Val(v),
                                    Country |-> cc]))

\* for series in root.findall('.//Series'): ...
RECURSIVE series_loop(_, _)
series_loop(series, data) ==
    IF series = <<>> THEN Return(data)
    ELSE LET r == obs_loop(Head(series).Obs, country_code(Head(series)), data)
         IN  IF Raised(r) THEN r ELSE series_loop(Tail(series), Val(r))

parse_bis_xml(xml_text) ==
    LET root == ET_fromstring(xml_text)
    IN  IF Raised(root) THEN root ELSE series_loop(Val(root), <<>>)

parse_bis_xml_df(xml_text) == parse_bis_xml(xml_text)

\* parse_bis_xml of BISapps.py (its second definition, the one in force): the
\* same loops, the records without a Country.
RECURSIVE BISapps_obs_loop(_, _)
BISapps_obs_loop(obs, data) ==
    IF obs = <<>> THEN Return(data)
    ELSE LET v == obs_value(Head(obs))
         IN  IF Raised(v) THEN v
             ELSE BISapps_obs_loop(Tail(obs),
                      Append(data, [time_period |-> Head(obs).TIME_PERIOD,
                                    value |-> Val(v)]))

RECURSIVE BISapps_series_loop(_, _)
BISapps_series_loop(series, data) ==
    IF series = <<>> THEN Return(data)
    ELSE LET r == BISapps_obs_loop(Head(series).Obs, data)
         IN  IF Raised(r) THEN r ELSE BISapps_series_loop(Tail(series), Val(r))

BISapps_parse_bis_xml(xml_text) ==
    LET root == ET_fromstring(xml_text)
    IN  IF Raised(root) THEN root ELSE BISapps_series_loop(Val(root), <<>>)

(***************************************************************************)
(* The outbound GET.  The remote end either cannot be reached (DNS or      *)
(* connection failure, timeout) or answers with a status code, a content   *)
(* type and a body.                                                        *)
(***************************************************************************)
Unreachable(kind) ==
    [transport |-> kind, status_code |-> 0, content_type |-> "", text |-> Malformed]
Answer(code, ctype, text) ==
    [transport |-> "ok", status_code |-> code, content_type |-> ctype, text |-> text]

\* str() of the HTTPError that raise_for_status builds.
HTTPErrorMessage(code) ==
    CASE code = 404 -> "404 Client Error: Not Found for url"
      [] code = 503 -> "503 Server Error: Service Unavailable for url"
      [] OTHER -> "Error for url"

\* requests.get(url, headers=headers)
requests_get(up) ==
    IF up.transport = "ok" THEN Return(up)
    ELSE Raise(Exception(up.transport,
                   IF up.transport = "requests.exceptions.Timeout"
                   THEN "Read timed out" ELSE "Failed to resolve host"))

\* response.raise_for_status()
raise_for_status(resp) ==
    IF resp.status_code >= 400 /\ resp.status_code < 600
    THEN Raise(Exception("requests.exceptions.HTTPError",
                         HTTPErrorMessage(resp.status_code)))
    ELSE Return(None)

\* raise HTTPException(status_code=500, detail=f"Error fetching BIS series: {str(e)}")
HTTPException(code, prefix, e) ==
    [type |-> "HTTPException", status_code |-> code, detail |-> <<prefix, str(e)>>]

\* except requests.exceptions.RequestException as e: raise HTTPException(...)
except_RequestException(r) ==
    IF Raised(r) /\ Exc(r).type \in RequestExceptions
    THEN Raise(HTTPException(500, "Error fetching BIS series: ", Exc(r)))
    ELSE r

\* fetch_bis_data of BIS.py and main.py: GET, raise_for_status and parse inside
\* one try block.
fetch_bis_data(up) ==
    LET got == requests_get(up)
        try == IF Raised(got) THEN got
               ELSE LET st == raise_for_status(Val(got))
                    IN  IF Raised(st) THEN st ELSE parse_bis_xml(Val(got).text)
    IN  except_RequestException(try)

\* fetch_bis_data_simple of BIS.py, and fetch_bis_data of chart.py: no try block.
fetch_bis_data_simple(up) ==
    LET got == requests_get(up)
    IN  IF Raised(got) THEN got
        ELSE LET st == raise_for_status(Val(got))
             IN  IF Raised(st) THEN st ELSE Return(Val(got).text)

\* response.json(): the value of a JSON body; requests raises its
\* JSONDecodeError for any other body.
response_json(resp) ==
    IF resp.text.json # None THEN Return(Get(resp.text.json))
    ELSE Raise(Exception("requests.exceptions.JSONDecodeError",
                         "Expecting value: line 1 column 1 (char 0)"))

\* 'application/json' in response.headers.get('Content-Type', '')
is_json_answer(resp) == contains(resp.content_type, "application/json")

\* fetch_bis_data of BISapps.py (its last definition): asks for JSON, returns
\* response.json() for a JSON answer and the parsed XML otherwise.
BISapps_fetch_bis_data(up) ==
    LET got == requests_get(up)
        try == IF Raised(got) THEN got
               ELSE LET st == raise_for_status(Val(got))
                    IN  IF Raised(st) THEN st
                        ELSE IF is_json_answer(Val(got))
                             THEN response_json(Val(got))
                             ELSE BISapps_parse_bis_xml(Val(got).text)
    IN  except_RequestException(try)

(***************************************************************************)
(* HTTP responses.  A body is a JSON array of rows ("array"), an object    *)
(* {"error": ...} ("error"), an object {"detail": ...} ("detail"), a       *)
(* figure ("figure"), any other JSON value ("json") or plain text          *)
(* ("text").  message holds the pieces of the error or detail string.      *)
(***************************************************************************)
JSONResponse(content, code) == [status_code |-> code, body |-> content]
ErrorBody(msg) == [kind |-> "error", message |-> msg, content |-> <<>>]
DetailBody(msg) == [kind |-> "detail", message |-> msg, content |-> <<>>]
ArrayBody(rows) == [kind |-> "array", message |-> <<>>, content |-> rows]
FigureBody(fig) == [kind |-> "figure", message |-> <<>>, content |-> fig]
JsonBody(v) == [kind |-> "json", message |-> <<>>, content |-> v]
TextBody(t) == [kind |-> "text", message |-> <<t>>, content |-> <<>>]

\* What FastAPI sends for a handler call: the returned value with status 200
\* (a returned JSONResponse as it is), the status and detail of a raised
\* HTTPException, and 500 "Internal Server Error" for any other exception.
Serve(result) ==
    IF ~Raised(result) THEN Val(result)
    ELSE IF Exc(result).type = "HTTPException"
         THEN JSONResponse(DetailBody(Exc(result).detail), Exc(result).status_code)
         ELSE JSONResponse(TextBody("Internal Server Error"), 500)

(***************************************************************************)
(* /bis_credit_table (BIS.py, main.py)                                     *)
(***************************************************************************)
\* for row in data: try: table.append({...}) except KeyError: continue
RECURSIVE table_loop(_, _)
table_loop(data, table) ==
    IF data = <<>> THEN table
    ELSE IF {"Date", "Country", "Value"} \subseteq DOMAIN Head(data)
         THEN table_loop(Tail(data),
                  Append(table, [Date |-> Head(data).Date,
                                 Country |-> Head(data).Country,
                                 Value |-> Head(data).Value]))
         ELSE table_loop(Tail(data), table)

bis_credit_table(up) ==
    LET data == fetch_bis_data(up)
    IN  IF Raised(data) THEN data
        ELSE Return(JSONResponse(ArrayBody(table_loop(Val(data), <<>>)), 200))

(***************************************************************************)
(* /bis (BISapps.py)                                                       *)
(***************************************************************************)
\* str(e) of a caught exception: Starlette's HTTPException prints
\* "<status_code>: <detail>", any other exception its message.
str_exception(e) ==
    IF e.type = "HTTPException"
    THEN <<ToString(e.status_code) \o ": ">> \o e.detail
    ELSE e.detail

\* try: return JSONResponse(content=data)  except Exception as e: return {"error": str(e)}
bis_data(up) ==
    LET data == BISapps_fetch_bis_data(up)
    IN  IF Raised(data)
        THEN Return(JSONResponse(ErrorBody(str_exception(Exc(data))), 200))
        ELSE Return(JSONResponse(JsonBody(Val(data)), 200))

(***************************************************************************)
(* /bis_credit_chart (BIS.py; chart.py is the same handler without the     *)
(* renderer check).  Timestamps are integers yyyymmdd.                     *)
(***************************************************************************)
\* pd.PeriodIndex(df['Date'], freq='Q').to_timestamp(): a quarter label maps to
\* the first day of its quarter; a label outside the period grammar raises.
PeriodLabels == { "2020-Q1", "2020-Q2", "2020-Q3" }

QuarterStart(label) ==
    CASE label = "2020-Q1" -> 20200101
      [] label = "2020-Q2" -> 20200401
      [] label = "2020-Q3" -> 20200701

PeriodIndex_to_timestamp(df) ==
    IF \E i \in 1..Len(df) : Get(df[i].Date) \notin PeriodLabels
    THEN Raise(Exception("ValueError", "Unknown datetime string format"))
    ELSE Return([i \in 1..Len(df) |->
                    [Date |-> QuarterStart(Get(df[i].Date)),
                     Value |-> df[i].Value,
                     Country |-> df[i].Country]])

\* df.sort_values("Date")
RECURSIVE insert_sorted(_, _)
insert_sorted(sorted, row) ==
    IF sorted = <<>> THEN <<row>>
    ELSE IF sorted[Len(sorted)].Date <= row.Date THEN Append(sorted, row)
         ELSE Append(insert_sorted(SubSeq(sorted, 1, Len(sorted) - 1), row),
                     sorted[Len(sorted)])

RECURSIVE sort_values(_)
sort_values(df) ==
    IF df = <<>> THEN <<>>
    ELSE insert_sorted(sort_values(SubSeq(df, 1, Len(df) - 1)), df[Len(df)])

\* pd.to_datetime(startdate): a timestamp, NaT (None) for the string "NaT", or
\* an exception for a string that is no date.
to_datetime(s) ==
    CASE s = "2020-04-01" -> Return(Some(20200401))
      [] s = "2020-07-01" -> Return(Some(20200701))
      [] s = "NaT" -> Return(None)
      [] OTHER -> Raise(Exception("ValueError", "Unknown datetime string format"))

\* The try block: start = pd.to_datetime(startdate); df = df[df['Date'] >= start]
startdate_filter_exclusive(df, startdate) ==
    LET start == to_datetime(startdate)
    IN  IF Raised(start) THEN start
        ELSE Return(SelectSeq(df, LAMBDA row :
                        Val(start) # None /\ row.Date > Get(Val(start))))

startdate_filter(df, startdate) ==
    LET start == to_datetime(startdate)
    IN  IF Raised(start) THEN start
        ELSE Return(SelectSeq(df, LAMBDA row :
                        Val(start) # None /\ row.Date >= Get(Val(start))))

\* if startdate: try: ... (the filter is skipped for an absent or empty startdate)
startdate_step(df, startdate) ==
    IF Truthy(startdate) THEN startdate_filter(df, Get(startdate)) ELSE Return(df)

\* Lines 177-186 on a frame that is not empty: the rows that reach the pivot.
rows_for_pivot(df, startdate) ==
    LET dated == PeriodIndex_to_timestamp(df)
    IN  IF Raised(dated) THEN dated
        ELSE startdate_step(sort_values(Val(dated)), startdate)

\* Ascending sequence of a finite set of integers.
RECURSIVE SortedDates(_)
SortedDates(S) ==
    IF S = {} THEN <<>>
    ELSE LET m == CHOOSE x \in S : \A y \in S : x <= y
         IN  <<m>> \o SortedDates(S \ {m})

\* Lexicographic order of the country codes of the model.
CountryRank(c) ==
    CASE c = "JP" -> 1 [] c = "US" -> 2 [] c = "Unknown" -> 3

RECURSIVE SortedCountries(_)
SortedCountries(S) ==
    IF S = {} THEN <<>>
    ELSE LET m == CHOOSE x \in S : \A y \in S : CountryRank(x) <= CountryRank(y)
         IN  <<m>> \o SortedCountries(S \ {m})

\* The distinct members of a sequence in the order of their first occurrence.
RECURSIVE FirstOccurrences(_)
FirstOccurrences(seq) ==
    IF seq = <<>> THEN <<>>
    ELSE LET rest == FirstOccurrences(SubSeq(seq, 1, Len(seq) - 1))
             last == seq[Len(seq)]
         IN  IF \E i \in 1..Len(rest) : rest[i] = last THEN rest ELSE Append(rest, last)

pivot_in_row_order(df) ==
    IF \E i, j \in 1..Len(df) :
          i < j /\ df[i].Date = df[j].Date /\ df[i].Country = df[j].Country
    THEN Raise(Exception("ValueError",
                         "Index contains duplicate entries, cannot reshape"))
    ELSE LET index == SortedDates({ df[i].Date : i \in 1..Len(df) })
             columns == FirstOccurrences([i \in 1..Len(df) |-> df[i].Country])
             cell(r, c) ==
                 IF \E i \in 1..Len(df) :
                       df[i].Date = index[r] /\ df[i].Country = columns[c]
                 THEN (CHOOSE row \in { df[i] : i \in 1..Len(df) } :
                          row.Date = index[r] /\ row.Country = columns[c]).Value
                 ELSE None
         IN  Return([index |-> index, columns |-> columns,
                     values |-> [rc \in (1..Len(index)) \X (1..Len(columns)) |->
                                     cell(rc[1], rc[2])]])

\* df.pivot(index="Date", columns="Country", values="Value").sort_index():
\* raises ValueError when two rows share (Date, Country); a cell with no row is NaN.
pivot(df) ==
    IF \E i, j \in 1..Len(df) :
          i < j /\ df[i].Date = df[j].Date /\ df[i].Country = df[j].Country
    THEN Raise(Exception("ValueError",
                         "Index contains duplicate entries, cannot reshape"))
    ELSE LET index == SortedDates({ df[i].Date : i \in 1..Len(df) })
             columns == SortedCountries({ df[i].Country : i \in 1..Len(df) })
             cell(r, c) ==
                 IF \E i \in 1..Len(df) :
                       df[i].Date = index[r] /\ df[i].Country = columns[c]
                 THEN (CHOOSE row \in { df[i] : i \in 1..Len(df) } :
                          row.Date = index[r] /\ row.Country = columns[c]).Value
                 ELSE None
         IN  Return([index |-> index, columns |-> columns,
                     values |-> [rc \in (1..Len(index)) \X (1..Len(columns)) |->
                                     cell(rc[1], rc[2])]])

\* df_pivot.pct_change(periods=p): with fill "pad" missing values are padded
\* forward first, with fill None they are left as they are; then
\* each cell is value[i] / value[i-p] - 1, kept as the fraction
\* <<value[i] - value[i-p], value[i-p]>>; the first p rows are NaN.
RECURSIVE ffill(_, _, _)
ffill(values, r, c) ==
    IF r = 0 THEN None
    ELSE IF values[<<r, c>>] # None THEN values[<<r, c>>]
         ELSE ffill(values, r - 1, c)

fillna(values, r, c, fill) ==
    IF fill = None THEN values[<<r, c>>] ELSE ffill(values, r, c)

pct_change(m, periods, fill) ==
    [m EXCEPT !.values =
        [rc \in DOMAIN m.values |->
            IF rc[1] <= periods THEN None
            ELSE LET cur == fillna(m.values, rc[1], rc[2], fill)
                     prev == fillna(m.values, rc[1] - periods, rc[2], fill)
                 IN  IF cur = None \/ prev = None THEN None
                     ELSE Some(<<Get(cur) - Get(prev), Get(prev)>>)]]

\* Lines 192-199: the matrix and the units label handed to plot_ts.
transform(m, mode, fill) ==
    IF mode = "yoy" THEN pct_change(m, 4, fill)
    ELSE IF mode = "qoq" THEN pct_change(m, 1, fill)
    ELSE m

units_label_caller(mode, units) == units

units_label(mode, units) ==
    IF mode = "yoy" THEN "YoY % change"
    ELSE IF mode = "qoq" THEN "QoQ % change"
    ELSE units

\* plot.py: the palette plot_ts picks for n columns.
Palette13 ==
    << "#f1c40f", "#2ecc71", "#9b59b6", "#e74c3c", "#bababa", "#0f3cf1", "#cc2e89",
       "#b69b59", "#5974b6", "#3cd7e7", "#7d2eff", "#adf10f", "#abecc7" >>

colors(n) ==
    IF n = 2 THEN SubSeq(Palette13, 1, 2)
    ELSE IF n = 3 THEN SubSeq(Palette13, 1, 5)
    ELSE IF n = 4 THEN SubSeq(Palette13, 1, 6)
    ELSE IF n = 5 THEN SubSeq(Palette13, 1, 7)
    ELSE Palette13

\* The chart kinds drawn as bars, and those whose y axis is formatted in percent.
BarKinds == { "Bar", "Bar_PCT", "bar" }
PctKinds == { "percent_change", "pct", "Bar_PCT", "BAR_PCT_INFLATION" }

\* chart == 'percent_change' or ... or 'pct' in chart.lower()
pct_axis(chart) == chart \in PctKinds \/ contains(lower(chart), "pct")

\* df.iloc[:, c]
Column(df, c) == [r \in 1..Len(df.index) |-> df.values[<<r, c>>]]

\* for i in range(len(df.columns)): fig.add_trace(...colors[i]...)
column_traces(df, type) ==
    IF Len(df.columns) > Len(colors(Len(df.columns)))
    THEN Raise(Exception("IndexError", "list index out of range"))
    ELSE Return([i \in 1..Len(df.columns) |->
                    [type |-> type,
                     name |-> <<df.columns[i]>>,
                     color |-> colors(Len(df.columns))[i],
                     x |-> df.index,
                     y |-> Column(df, i)]])

\* x_all.iloc[-12:]
recent_first(points) == SubSeq(points, 1, IF Len(points) > 12 THEN 12 ELSE Len(points))

recent(points) ==
    SubSeq(points, IF Len(points) > 12 THEN Len(points) - 11 ELSE 1, Len(points))

RECURSIVE Sum(_, _)
Sum(f, n) == IF n = 0 THEN 0 ELSE f[n] + Sum(f, n - 1)

\* np.polyfit(x, y, 1) and coef[0] * x + coef[1]: the fitted value at each x, as
\* the fraction <<numerator, denominator>>.
reg_line(x, y) ==
    LET n == Len(x)
        Sx == Sum(x, n)
        Sy == Sum(y, n)
        Sxx == Sum([i \in 1..n |-> x[i] * x[i]], n)
        Sxy == Sum([i \in 1..n |-> x[i] * y[i]], n)
        den == n * Sxx - Sx * Sx
    IN  [i \in 1..n |-> <<(n * Sxy - Sx * Sy) * x[i] + (Sy * Sxx - Sx * Sxy), den>>]

\* chart == "regression"
regression_traces(df) ==
    IF Len(df.columns) < 2 THEN <<>>
    ELSE LET x_col == Column(df, 1)
             y_col == Column(df, 2)
             mask == SelectSeq([r \in 1..Len(df.index) |-> r],
                               LAMBDA r : x_col[r] # None /\ y_col[r] # None)
             x_all == [k \in 1..Len(mask) |-> Get(x_col[mask[k]])]
             y_all == [k \in 1..Len(mask) |-> Get(y_col[mask[k]])]
             all == << [type |-> "markers",
                        name |-> <<df.columns[1], " vs ", df.columns[2], " (All)">>,
                        color |-> "#3b7484", x |-> x_all, y |-> y_all] >>
             line == IF Len(x_all) > 1
                     THEN << [type |-> "lines", name |-> <<"Regression">>,
                              color |-> "#ec772a", x |-> x_all, y |-> reg_line(x_all, y_all)] >>
                     ELSE <<>>
             latest == << [type |-> "markers", name |-> <<"Latest 12">>,
                           color |-> "red", x |-> recent(x_all), y |-> recent(y_all)] >>
         IN  all \o line \o latest

\* y = df[col].dropna()
dropna(values) ==
    LET kept == SelectSeq(values, LAMBDA v : v # None)
    IN  [k \in 1..Len(kept) |-> Get(kept[k])]

\* chart == "distribution": for each column a violin of its values in the
\* colour colors[i % len(colors)] and, when it has a value, a marker on the last.
RECURSIVE distribution_traces(_, _)
distribution_traces(df, n) ==
    IF n = 0 THEN <<>>
    ELSE LET palette == colors(Len(df.columns))
             y == dropna(Column(df, n))
             violin == [type |-> "violin",
                        name |-> <<df.columns[n]>>,
                        color |-> palette[((n - 1) % Len(palette)) + 1],
                        x |-> <<>>,
                        y |-> y]
             latest == [type |-> "markers", name |-> <<"Latest">>, color |-> "red",
                        x |-> <<df.columns[n]>>, y |-> <<y[Len(y)]>>]
         IN  distribution_traces(df, n - 1)
                 \o <<violin>> \o (IF y = <<>> THEN <<>> ELSE <<latest>>)

\* plot_ts(df, nome, units, chart): the traces of the chart kind (bars, the
\* regression, the distribution, or one line per column for every other kind), the y axis titled
\* with units, the x axis titled only by the regression of two columns.
plot_ts_chart(df, units, chart) ==
    LET traces == IF chart \in BarKinds THEN column_traces(df, "bar")
                  ELSE IF chart = "regression" THEN Return(regression_traces(df))
                  ELSE IF chart = "distribution"
                       THEN Return(distribution_traces(df, Len(df.columns)))
                  ELSE column_traces(df, "lines")
    IN  IF Raised(traces) THEN traces
        ELSE Return([traces |-> Val(traces),
                     data |-> df,
                     xaxis_title |-> IF chart = "regression" /\ Len(df.columns) >= 2
                                     THEN Some(df.columns[1]) ELSE None,
                     yaxis_title |-> units,
                     tickformat |-> IF pct_axis(chart) THEN Some(",.2%") ELSE None])

\* plot_ts(df_pivot, nome="BIS Data", units=units, theme=theme): the default
\* chart kind 'line'.
PlotTs(df, units) == plot_ts_chart(df, units, "line")

\* except Exception as e: return JSONResponse({"error": f"Invalid startdate: {e}"}, 400)
invalid_startdate_500(e) ==
    JSONResponse(ErrorBody(<<"Invalid startdate: ", str(e)>>), 500)

invalid_startdate(e) ==
    JSONResponse(ErrorBody(<<"Invalid startdate: ", str(e)>>), 400)

\* if plot_ts is None or plotly is None: return JSONResponse({"error": ...}, 500)
NotAvailable == "plot_ts or plotly not available. Please install plot.py and plotly."

renderer_unavailable_silent == JSONResponse(JsonBody(<<>>), 200)

renderer_unavailable == JSONResponse(ErrorBody(<<NotAvailable>>), 500)

\* The handler with the renderer check and the startdate validation moved in
\* front of the outbound GET.
bis_credit_chart_validating_first(up, q, renderer) ==
    LET xml_text == fetch_bis_data_simple(up)
        df == parse_bis_xml_df(Val(xml_text))
        dated == PeriodIndex_to_timestamp(Val(df))
        sorted == sort_values(Val(dated))
        filtered == startdate_step(sorted, q.startdate)
        df_pivot == pivot(Val(filtered))
        transformed == transform(Val(df_pivot), q.mode, fill_method)
        units == units_label(q.mode, q.units)
        fig == PlotTs(transformed, units)
    IN  IF renderer = None THEN Return(renderer_unavailable)
        ELSE IF Truthy(q.startdate) /\ Raised(to_datetime(Get(q.startdate)))
             THEN Return(invalid_startdate(Exc(to_datetime(Get(q.startdate)))))
        ELSE IF Raised(xml_text) THEN xml_text
        ELSE IF Raised(df) THEN df
        ELSE IF Val(df) = <<>>
             THEN Return(JSONResponse(ErrorBody(<<"No data returned from BIS.">>), 404))
        ELSE IF Raised(dated) THEN dated
        ELSE IF Raised(df_pivot) THEN df_pivot
        ELSE IF Raised(fig) THEN fig
        ELSE Return(JSONResponse(FigureBody(Val(fig)), 200))

bis_credit_chart(up, q, renderer) ==
    LET xml_text == fetch_bis_data_simple(up)
        df == parse_bis_xml_df(Val(xml_text))
        dated == PeriodIndex_to_timestamp(Val(df))
        sorted == sort_values(Val(dated))
        filtered == startdate_step(sorted, q.startdate)
        df_pivot == pivot(Val(filtered))
        transformed == transform(Val(df_pivot), q.mode, fill_method)
        units == units_label(q.mode, q.units)
        fig == PlotTs(transformed, units)
    IN  IF Raised(xml_text) THEN xml_text
        ELSE IF Raised(df) THEN df
        ELSE IF Val(df) = <<>>
             THEN Return(JSONResponse(ErrorBody(<<"No data returned from BIS.">>), 404))
        ELSE IF Raised(dated) THEN dated
        ELSE IF Raised(filtered)
             THEN Return(invalid_startdate(Exc(filtered)))
        ELSE IF Raised(df_pivot) THEN df_pivot
        ELSE IF renderer = None THEN Return(renderer_unavailable)
        ELSE IF Raised(fig) THEN fig
        ELSE Return(JSONResponse(FigureBody(Val(fig)), 200))

(***************************************************************************)
(* The widget registry.  A widget config is kept by its name, type,        *)
(* endpoint and id (None: the dict has no "id" key); a dict of configs is  *)
(* a function from its keys.                                               *)
(***************************************************************************)
WidgetConfig(name, type, endpoint, id) ==
    [name |-> name, type |-> type, endpoint |-> endpoint, id |-> id]

\* The config the module passes to @register_widget.
table_widget ==
    WidgetConfig("BIS Credit Data Table", "table", "bis_credit_table", None)

\* The literal of get_widgets in BIS.py.
chart_widget ==
    WidgetConfig("BIS Chart", "chart", "bis_credit_chart", None)

\* d[key] = value
SetItem(d, key, value) ==
    [k \in DOMAIN d \cup { key } |-> IF k = key THEN value ELSE d[k]]

\* register_widget(widget_config) at decoration time: the registry afterwards.
register_widget(registry, widget_config) ==
    IF widget_config.endpoint = "" THEN registry
    ELSE SetItem(registry, widget_config.endpoint,
                 IF widget_config.id = None
                 THEN [widget_config EXCEPT !.id = Some(widget_config.endpoint)]
                 ELSE widget_config)

\* The registry when the module has loaded.
LoadedWidgets == register_widget(<<>>, table_widget)

\* get_widgets of BIS.py: what it returns and the registry it leaves.
get_widgets_aliased(registry) ==
    [value |-> SetItem(registry, "bis_credit_chart", chart_widget),
     WIDGETS |-> SetItem(registry, "bis_credit_chart", chart_widget)]

get_widgets(registry) ==
    [value |-> SetItem(registry, "bis_credit_chart", chart_widget),
     WIDGETS |-> registry]

\* get_widgets of main.py: return WIDGETS
main_get_widgets(registry) == [value |-> registry, WIDGETS |-> registry]

\* root()
root == JsonBody(<<"BIS Data Backend for OpenBB Workspace">>)

(***************************************************************************)
(* The inputs of the model.                                                *)
(***************************************************************************)
Countries == { None, Some("US") }

\* Payloads of the parser runs.
ParseObs ==
    { Obs(tp, v) : tp \in { None, Some("2020-Q1") },
                   v \in { None, Some(""), Some("100"), Some("abc") } }
ParseTexts(k, t) ==
    { Document(d) : d \in SeriesSeqs(k, t, Countries, ParseObs) }
        \cup { Malformed }

\* Payloads of the table and /bis requests.
TableObs ==
    { Obs(tp, v) : tp \in { None, Some("2020-Q1"), Some("2020-Q2") },
                   v \in { None, Some("100"), Some("110"), Some("abc") } }
TableTexts(k, t) ==
    { Document(d) : d \in SeriesSeqs(k, t, Countries, TableObs) }
        \cup { Malformed }

\* Payloads of the chart requests: every Obs carries a TIME_PERIOD attribute,
\* a quarter label or a string outside the period grammar.
ChartObs ==
    { Obs(tp, v) : tp \in { Some("2020-Q1"), Some("2020-Q2"), Some("bad") },
                   v \in { None, Some("100"), Some("110"), Some("abc") } }
ChartTexts(k, t) ==
    { Document(d) : d \in SeriesSeqs(k, t, Countries, ChartObs) }
        \cup { Malformed }

\* Transport failures: no connection, timeout, a 4xx or 5xx answer.
Failures ==
    { Unreachable("requests.exceptions.ConnectionError"),
      Unreachable("requests.exceptions.Timeout"),
      Answer(404, "text/html", Malformed),
      Answer(503, "text/html", Malformed) }

Startdates ==
    { None, Some(""), Some("not-a-date"), Some("NaT"),
      Some("2020-04-01"), Some("2020-07-01") }
Modes == { "total", "yoy", "qoq" }
\* mode is a free string: the empty string and an unknown one as well.
AllModes == Modes \cup { "", "cagr" }
Units == { "USD bn", "EUR bn" }

Query(endpoint, startdate, mode, units) ==
    [startdate |-> startdate, mode |-> mode, units |-> units, endpoint |-> endpoint]

(***************************************************************************)
(* The payloads and answers of the remote end.                             *)
(***************************************************************************)
TableUpstreams(k, t) ==
    Failures \cup { Answer(200, "application/xml", text) : text \in TableTexts(k, t) }
ChartUpstreams(k, t) ==
    Failures \cup { Answer(200, "application/xml", text) : text \in ChartTexts(k, t) }
\* /bis asks for JSON: the remote end may answer with a JSON content type (with
\* or without parameters) and a body that is JSON or is not, and with a JSON
\* body under an XML content type.
JsonContentTypes == { "application/json", "application/json; charset=utf-8" }
BisUpstreams(k, t) ==
    TableUpstreams(k, t)
        \cup { Answer(200, ct, body) : ct \in JsonContentTypes,
                                       body \in { JsonText(<<>>), Malformed } }
        \cup { Answer(200, "application/xml", JsonText(<<>>)) }

LocalEndpoints == { "widgets.json", "main/widgets.json", "" }

\* The parser call made on the answer, when the GET and raise_for_status pass.
ParserCall(up, result) ==
    IF Raised(fetch_bis_data_simple(up)) THEN None ELSE Some(result)

\* The parser call of BISapps.fetch_bis_data: none for a JSON answer.
BISapps_ParserCall(up) ==
    IF up.transport = "ok" /\ is_json_answer(up) THEN None
    ELSE ParserCall(up, BISapps_parse_bis_xml(up.text))

\* The df.pivot call of the chart handler, made when the frame is not empty,
\* its labels are periods and the startdate step has not raised.
PivotCall(up, q) ==
    LET xml_text == fetch_bis_data_simple(up)
        df == parse_bis_xml_df(Val(xml_text))
        rows == rows_for_pivot(Val(df), q.startdate)
    IN  IF Raised(xml_text) THEN None
        ELSE IF Raised(df) THEN None
        ELSE IF Val(df) = <<>> THEN None
        ELSE IF Raised(rows) THEN None
        ELSE Some(pivot(Val(rows)))

(***************************************************************************)
(* The server.  The endpoints are sync functions: FastAPI runs each call   *)
(* in a worker thread, and a call blocks in requests.get until the remote  *)
(* end answers, while other threads receive and serve other requests.      *)
(* threads[t] is the call worker thread t is running: its position, its    *)
(* request, the answer to its outbound GET and what its calls returned.    *)
(* A call is two steps: from its entry to the outbound GET, and from the   *)
(* answer to its return.  An endpoint without an outbound GET is one step. *)
(***************************************************************************)
MaxThreads == 2          \* worker threads
MaxOverlapSeries == 1    \* Series elements per payload, overlapping calls
MaxOverlapRows == 1      \* Obs elements per payload, overlapping calls

Threads == 1..MaxThreads

Call(pc_, request_, upstream_, fetched_, parsed_, pivoted_, outcome_, response_) ==
    [pc |-> pc_, request |-> request_, upstream |-> upstream_, fetched |-> fetched_,
     parsed |-> parsed_, pivoted |-> pivoted_, outcome |-> outcome_,
     response |-> response_]

Idle == Call("idle", None, None, None, None, None, None, None)
Entered(pc_, q) == Call(pc_, Some(q), None, None, None, None, None, None)

\* The query values of the overlapping calls.
OverlapStartdates == { None, Some("not-a-date"), Some("2020-04-01") }
OverlapModes == { "total", "qoq" }

Init ==
    /\ plot_ts \in { None, Some("plot.plot_ts") }
    /\ fill_method \in { None, Some("pad") }
    /\ WIDGETS = LoadedWidgets
    /\ threads = [t \in Threads |-> Idle]
    /\ pc = "server"
    /\ request = None
    /\ upstream = None
    /\ fetched = None
    /\ parsed = None
    /\ pivoted = None
    /\ outcome = None
    /\ response = None

\* Only the shared state and the calls of the threads change.
ServerFrame == UNCHANGED <<plot_ts, fill_method, pc, request, upstream, fetched, parsed,
                           pivoted, outcome, response>>

\* A free worker thread enters the handler of request q.
Receive(t, pc_, q) ==
    /\ threads[t].pc = "idle"
    /\ threads' = [threads EXCEPT ![t] = Entered(pc_, q)]
    /\ UNCHANGED WIDGETS
    /\ ServerFrame

\* The handler runs to its requests.get and waits for the remote end.
ReceiveTable ==
    \E t \in Threads : Receive(t, "waiting", Query("bis_credit_table", None, "total", "USD bn"))

ReceiveChart ==
    \E t \in Threads, sd \in OverlapStartdates, m \in OverlapModes :
        Receive(t, "waiting", Query("bis_credit_chart", sd, m, "USD bn"))

ReceiveBis ==
    \E t \in Threads : Receive(t, "waiting", Query("bis", None, "total", "USD bn"))

\* A request to an endpoint that makes no outbound call.
ReceiveLocal ==
    \E t \in Threads, e \in LocalEndpoints :
        Receive(t, "received", Query(e, None, "total", "USD bn"))

\* The remote end answers the GET of thread t with up and the handler runs to
\* its end: its fetcher call, its parser call (when reached), its pivot call
\* (when reached), its result and the response FastAPI sends for it.
Handled(t, up, fetch, parse, pivot_, result) ==
    /\ threads' = [threads EXCEPT ![t] =
                      Call("done", @.request, Some(up), Some(fetch), parse, pivot_,
                           Some(result), Some(Serve(result)))]
    /\ UNCHANGED WIDGETS
    /\ ServerFrame

Waiting(t, endpoint) ==
    /\ threads[t].pc = "waiting"
    /\ Get(threads[t].request).endpoint = endpoint

HandleTable ==
    \E t \in Threads :
        /\ Waiting(t, "bis_credit_table")
        /\ \E up \in TableUpstreams(MaxOverlapSeries, MaxOverlapRows) :
              Handled(t, up, fetch_bis_data(up),
                      ParserCall(up, parse_bis_xml(up.text)),
                      None,
                      bis_credit_table(up))

HandleChart ==
    \E t \in Threads :
        /\ Waiting(t, "bis_credit_chart")
        /\ \E up \in ChartUpstreams(MaxOverlapSeries, MaxOverlapRows) :
              Handled(t, up, fetch_bis_data_simple(up),
                      ParserCall(up, parse_bis_xml_df(up.text)),
                      PivotCall(up, Get(threads[t].request)),
                      bis_credit_chart(up, Get(threads[t].request), plot_ts))

HandleBis ==
    \E t \in Threads :
        /\ Waiting(t, "bis")
        /\ \E up \in BisUpstreams(MaxOverlapSeries, MaxOverlapRows) :
              Handled(t, up, BISapps_fetch_bis_data(up),
                      BISapps_ParserCall(up),
                      None,
                      bis_data(up))

\* /widgets.json of BIS.py and of main.py, and /.
Answered(t, endpoint, registry, result) ==
    /\ threads[t].pc = "received"
    /\ Get(threads[t].request).endpoint = endpoint
    /\ WIDGETS' = registry
    /\ threads' = [threads EXCEPT ![t] =
                      Call("done", @.request, None, None, None, None,
                           Some(Return(result)), Some(Serve(Return(result))))]
    /\ ServerFrame

HandleWidgets ==
    \E t \in Threads :
        Answered(t, "widgets.json", get_widgets(WIDGETS).WIDGETS,
                 JSONResponse(JsonBody(get_widgets(WIDGETS).value), 200))

HandleMainWidgets ==
    \E t \in Threads :
        Answered(t, "main/widgets.json", main_get_widgets(WIDGETS).WIDGETS,
                 JSONResponse(JsonBody(main_get_widgets(WIDGETS).value), 200))

HandleRoot ==
    \E t \in Threads : Answered(t, "", WIDGETS, JSONResponse(root, 200))

\* The response is sent; everything of the call is discarded.
Finish ==
    \E t \in Threads :
        /\ threads[t].pc = "done"
        /\ threads' = [threads EXCEPT ![t] = Idle]
        /\ UNCHANGED WIDGETS
        /\ ServerFrame

Next ==
    \/ ReceiveTable
    \/ ReceiveChart
    \/ ReceiveBis
    \/ ReceiveLocal
    \/ HandleTable
    \/ HandleChart
    \/ HandleBis
    \/ HandleWidgets
    \/ HandleMainWidgets
    \/ HandleRoot
    \/ Finish

Spec == Init /\ [][Next]_vars

(***************************************************************************)
(* Handler calls: one call of one handler, followed on its own with the    *)
(* payloads of MaxSeries and MaxRows.  A call is two steps, as in the      *)
(* server: from its entry to the outbound GET, and from the answer to its  *)
(* return.  A handler reads its query, the answer to its own GET and the   *)
(* module globals plot_ts and WIDGETS, which no handler writes (Spec, where*)
(* the calls of the worker threads overlap), so what other calls do while  *)
(* it waits does not change its result.                                    *)
(***************************************************************************)
InitHandler ==
    /\ plot_ts \in { None, Some("plot.plot_ts") }
    /\ fill_method \in { None, Some("pad") }
    /\ WIDGETS = LoadedWidgets
    /\ threads = [t \in Threads |-> Idle]
    /\ pc = "ready"
    /\ request = None
    /\ upstream = None
    /\ fetched = None
    /\ parsed = None
    /\ pivoted = None
    /\ outcome = None
    /\ response = None

\* The handler is entered with the query q and runs to its requests.get, where
\* it waits for the remote end.
EnterCall(q) ==
    /\ pc = "ready"
    /\ pc' = "waiting"
    /\ request' = Some(q)
    /\ UNCHANGED <<threads, plot_ts, WIDGETS, fill_method, upstream, fetched, parsed,
                   pivoted, outcome, response>>

EnterTable == EnterCall(Query("bis_credit_table", None, "total", "USD bn"))

EnterChart ==
    /\ pc = "ready"
    /\ \E sd \in Startdates, m \in AllModes, u \in Units :
          EnterCall(Query("bis_credit_chart", sd, m, u))

EnterBis == EnterCall(Query("bis", None, "total", "USD bn"))

\* The remote end answers the GET with up and the handler runs to its end: its
\* fetcher call, its parser call (when reached), its pivot call (when reached),
\* its result and the response FastAPI sends for it.
Returned(up, registry, fetch, parse, pivot_, result) ==
    /\ pc' = "done"
    /\ upstream' = up
    /\ WIDGETS' = registry
    /\ fetched' = fetch
    /\ parsed' = parse
    /\ pivoted' = pivot_
    /\ outcome' = Some(result)
    /\ response' = Some(Serve(result))

ReturnTable ==
    /\ pc = "waiting"
    /\ Get(request).endpoint = "bis_credit_table"
    /\ \E up \in TableUpstreams(MaxSeries, MaxRows) :
          Returned(Some(up), WIDGETS,
                   Some(fetch_bis_data(up)),
                   ParserCall(up, parse_bis_xml(up.text)),
                   None,
                   bis_credit_table(up))
    /\ UNCHANGED <<threads, plot_ts, fill_method, request>>

ReturnChart ==
    /\ pc = "waiting"
    /\ Get(request).endpoint = "bis_credit_chart"
    /\ \E up \in ChartUpstreams(MaxSeries, MaxRows) :
          Returned(Some(up), WIDGETS,
                   Some(fetch_bis_data_simple(up)),
                   ParserCall(up, parse_bis_xml_df(up.text)),
                   PivotCall(up, Get(request)),
                   bis_credit_chart(up, Get(request), plot_ts))
    /\ UNCHANGED <<threads, plot_ts, fill_method, request>>

ReturnBis ==
    /\ pc = "waiting"
    /\ Get(request).endpoint = "bis"
    /\ \E up \in BisUpstreams(MaxSeries, MaxRows) :
          Returned(Some(up), WIDGETS,
                   Some(BISapps_fetch_bis_data(up)),
                   BISapps_ParserCall(up),
                   None,
                   bis_data(up))
    /\ UNCHANGED <<threads, plot_ts, fill_method, request>>

\* The endpoints without an outbound GET: entered and returned in one step.
CallLocal(endpoint, registry, result) ==
    /\ pc = "ready"
    /\ request' = Some(Query(endpoint, None, "total", "USD bn"))
    /\ Returned(None, registry, None, None, None, Return(result))
    /\ UNCHANGED <<threads, plot_ts, fill_method>>

CallWidgets ==
    CallLocal("widgets.json", get_widgets(WIDGETS).WIDGETS,
              JSONResponse(JsonBody(get_widgets(WIDGETS).value), 200))

CallMainWidgets ==
    CallLocal("main/widgets.json", main_get_widgets(WIDGETS).WIDGETS,
              JSONResponse(JsonBody(main_get_widgets(WIDGETS).value), 200))

CallRoot ==
    CallLocal("", WIDGETS, JSONResponse(root, 200))

NextHandler ==
    \/ EnterTable
    \/ EnterChart
    \/ EnterBis
    \/ ReturnTable
    \/ ReturnChart
    \/ ReturnBis
    \/ CallWidgets
    \/ CallMainWidgets
    \/ CallRoot

SpecHandler == InitHandler /\ [][NextHandler]_vars

(***************************************************************************)
(* Parser runs: the parser applied to one document.                        *)
(***************************************************************************)
InitParse ==
    /\ plot_ts = Some("plot.plot_ts")
    /\ fill_method = Some("pad")
    /\ WIDGETS = LoadedWidgets
    /\ threads = [t \in Threads |-> Idle]
    /\ pivoted = None
    /\ pc = "input"
    /\ request = None
    /\ upstream \in { Some(Answer(200, "application/xml", t)) : t \in ParseTexts(MaxSeries, MaxObs) }
    /\ fetched = None
    /\ parsed = None
    /\ outcome = None
    /\ response = None

Parse ==
    /\ pc = "input"
    /\ pc' = "parsed"
    /\ parsed' = Some(parse_bis_xml(Get(upstream).text))
    /\ UNCHANGED <<threads, plot_ts, WIDGETS, fill_method, request, upstream, fetched, pivoted, outcome, response>>

ParseBISapps ==
    /\ pc = "input"
    /\ pc' = "parsed_BISapps"
    /\ parsed' = Some(BISapps_parse_bis_xml(Get(upstream).text))
    /\ UNCHANGED <<threads, plot_ts, WIDGETS, fill_method, request, upstream, fetched, pivoted, outcome, response>>

NextParse == Parse \/ ParseBISapps

SpecParse == InitParse /\ [][NextParse]_vars

(***************************************************************************)
(* Filter runs: lines 177-186 of bis_credit_chart applied to one parsed    *)
(* frame and one startdate.                                                *)
(***************************************************************************)
MaxFilterRows == 3

FilterRows ==
    { [Date |-> Some(l), Value |-> Some(v), Country |-> "US"] :
          l \in PeriodLabels, v \in { 100, 110 } }

RECURSIVE SeqsUpTo(_, _)
SeqsUpTo(S, n) ==
    IF n = 0 THEN { <<>> }
    ELSE LET shorter == SeqsUpTo(S, n - 1)
         IN  shorter \cup { Append(q, x) : q \in { t \in shorter : Len(t) = n - 1 }, x \in S }

FilterFrames(n) == SeqsUpTo(FilterRows, n) \ { <<>> }

InitFilter ==
    /\ plot_ts = Some("plot.plot_ts")
    /\ fill_method = Some("pad")
    /\ WIDGETS = LoadedWidgets
    /\ threads = [t \in Threads |-> Idle]
    /\ pivoted = None
    /\ pc = "frame"
    /\ request \in { Some(Query("bis_credit_chart", sd, "total", "USD bn")) : sd \in Startdates }
    /\ upstream = None
    /\ fetched = None
    /\ parsed \in { Some(Return(df)) : df \in FilterFrames(MaxFilterRows) }
    /\ outcome = None
    /\ response = None

Filter ==
    /\ pc = "frame"
    /\ pc' = "filtered"
    /\ outcome' = Some(rows_for_pivot(Val(Get(parsed)), Get(request).startdate))
    /\ UNCHANGED <<threads, plot_ts, WIDGETS, fill_method, request, upstream, fetched, parsed, pivoted, response>>

NextFilter == Filter

SpecFilter == InitFilter /\ [][NextFilter]_vars

(***************************************************************************)
(* Transform runs: lines 192-199 of bis_credit_chart applied to one pivot  *)
(* matrix, one mode and one units label.                                   *)
(***************************************************************************)
MaxMatrixRows == 5
MaxWideRows == 2

QuarterDates ==
    << 20200101, 20200401, 20200701, 20201001, 20210101, 20210401, 20210701, 20211001 >>

Levels == { None, Some(100), Some(102), Some(103), Some(104), Some(110) }
WideLevels == { None, Some(100), Some(110) }

Matrix(rows, columns, values) ==
    [index |-> SubSeq(QuarterDates, 1, rows), columns |-> columns, values |-> values]

\* Matrices of one column and up to MaxMatrixRows rows, and of two columns and
\* up to MaxWideRows rows.
Matrices(tall, wide) ==
    UNION { { Matrix(r, <<"US">>, v) : v \in [(1..r) \X (1..1) -> Levels] } :
                r \in 1..tall }
      \cup
    UNION { { Matrix(r, <<"JP", "US">>, v) : v \in [(1..r) \X (1..2) -> WideLevels] } :
                r \in 1..wide }

InitTransform ==
    /\ plot_ts = Some("plot.plot_ts")
    /\ fill_method \in { None, Some("pad") }
    /\ WIDGETS = LoadedWidgets
    /\ threads = [t \in Threads |-> Idle]
    /\ pc = "pivoted"
    /\ request \in { Some(Query("bis_credit_chart", None, mode, units)) :
                        mode \in AllModes, units \in Units }
    /\ upstream = None
    /\ fetched = None
    /\ parsed = None
    /\ pivoted \in { Some(Return(m)) : m \in Matrices(MaxMatrixRows, MaxWideRows) }
    /\ outcome = None
    /\ response = None

Transform ==
    /\ pc = "pivoted"
    /\ pc' = "transformed"
    /\ outcome' = Some(Return([df_pivot |-> transform(Val(Get(pivoted)), Get(request).mode, fill_method),
                               units |-> units_label(Get(request).mode, Get(request).units)]))
    /\ UNCHANGED <<threads, plot_ts, WIDGETS, fill_method, request, upstream, fetched, parsed, pivoted, response>>

NextTransform == Transform

SpecTransform == InitTransform /\ [][NextTransform]_vars

(***************************************************************************)
(* Pivot runs: lines 177-189 of bis_credit_chart applied to one parsed     *)
(* frame.                                                                  *)
(***************************************************************************)
MaxPivotRows == 3

PivotRows ==
    { [Date |-> Some(l), Value |-> v, Country |-> c] :
          l \in PeriodLabels, v \in WideLevels, c \in { "JP", "US" } }

PivotFrames(n) == SeqsUpTo(PivotRows, n) \ { <<>> }

InitPivot ==
    /\ plot_ts = Some("plot.plot_ts")
    /\ fill_method = Some("pad")
    /\ WIDGETS = LoadedWidgets
    /\ threads = [t \in Threads |-> Idle]
    /\ pc = "frame"
    /\ request \in { Some(Query("bis_credit_chart", sd, "total", "USD bn")) :
                        sd \in { None, Some("2020-04-01") } }
    /\ upstream = None
    /\ fetched = None
    /\ parsed \in { Some(Return(df)) : df \in PivotFrames(MaxPivotRows) }
    /\ pivoted = None
    /\ outcome = None
    /\ response = None

Pivot ==
    /\ pc = "frame"
    /\ pc' = "pivoted"
    /\ pivoted' = Some(pivot(Val(rows_for_pivot(Val(Get(parsed)), Get(request).startdate))))
    /\ UNCHANGED <<threads, plot_ts, WIDGETS, fill_method, request, upstream, fetched, parsed, outcome, response>>

NextPivot == Pivot

SpecPivot == InitPivot /\ [][NextPivot]_vars

(***************************************************************************)
(* Renderer runs: plot_ts applied to one matrix and one chart kind.        *)
(***************************************************************************)
MaxColumns == 14
MaxPoints == 14
MaxSparseRows == 3

ColumnNames ==
    << "AU", "BR", "CA", "CH", "CN", "DE", "FR", "GB", "IN", "IT", "JP", "KR", "MX",
       "RU", "US", "XM" >>

\* Matrices of one to MaxColumns columns and one or two rows.
WideMatrices ==
    { [index |-> SubSeq(QuarterDates, 1, r),
       columns |-> SubSeq(ColumnNames, 1, n),
       values |-> [rc \in (1..r) \X (1..n) |-> Some(100 + rc[1] + rc[2])]] :
          n \in 1..MaxColumns, r \in 1..2 }

\* Matrices of up to three columns: of up to MaxSparseRows rows with any cell of
\* the first two columns missing, and of up to MaxPoints rows with at most one
\* row that misses a cell.  The first column grows with the row.
PointMatrix(n, r, xs, ys) ==
    [index |-> [i \in 1..r |-> i],
     columns |-> SubSeq(ColumnNames, 1, n),
     values |-> [rc \in (1..r) \X (1..n) |->
                    IF rc[2] = 1 THEN xs[rc[1]]
                    ELSE IF rc[2] = 2 THEN ys[rc[1]]
                    ELSE Some(7)]]

SparseMatrices(rows) ==
    UNION { { PointMatrix(n, r, xs, ys) :
                  xs \in { f \in [1..r -> { None } \cup { Some(i) : i \in 1..r }] :
                               \A i \in 1..r : f[i] # None => f[i] = Some(i) },
                  ys \in [1..r -> { None, Some(100), Some(110) }] } :
            n \in 0..3, r \in 0..rows }

LongMatrices(short, long) ==
    { PointMatrix(n, r,
                  [i \in 1..r |-> IF i = hole /\ side = "x" THEN None ELSE Some(i)],
                  [i \in 1..r |-> IF i = hole /\ side = "y" THEN None
                                  ELSE Some(100 + ((i * i) % 7))]) :
          n \in 2..3, r \in (short + 1)..long, hole \in 0..long,
          side \in { "x", "y" } }

ChartKinds == { "line", "bar", "Bar_PCT", "regression", "distribution", "pct_change", "PCT" }

InitPlot ==
    /\ plot_ts = Some("plot.plot_ts")
    /\ fill_method = Some("pad")
    /\ WIDGETS = LoadedWidgets
    /\ threads = [t \in Threads |-> Idle]
    /\ pc = "transformed"
    /\ request \in { Some([endpoint |-> "plot_ts", chart |-> kind, units |-> "USD bn"]) :
                        kind \in ChartKinds }
    /\ upstream = None
    /\ fetched = None
    /\ parsed = None
    /\ pivoted \in { Some(Return(m)) : m \in WideMatrices \cup SparseMatrices(MaxSparseRows)
                                                \cup LongMatrices(MaxSparseRows, MaxPoints) }
    /\ outcome = None
    /\ response = None

Plot ==
    /\ pc = "transformed"
    /\ pc' = "plotted"
    /\ outcome' = Some(plot_ts_chart(Val(Get(pivoted)), Get(request).units, Get(request).chart))
    /\ UNCHANGED <<threads, plot_ts, WIDGETS, fill_method, request, upstream, fetched, parsed, pivoted, response>>

NextPlot == Plot

SpecPlot == InitPlot /\ [][NextPlot]_vars

(***************************************************************************)
(* Vocabulary of the properties.                                           *)
(***************************************************************************)
Req == Get(request)
Up == Get(upstream)
Resp == Get(response)

\* The GET failed: no connection, a timeout, or a 4xx/5xx answer.
TransportFailed(up) ==
    up.transport # "ok" \/ (up.status_code >= 400 /\ up.status_code < 600)

\* The message of the transport failure, as the requests library words it.
UpstreamMessage(up) ==
    CASE up.transport = "requests.exceptions.Timeout" -> "Read timed out"
      [] up.transport = "requests.exceptions.ConnectionError" -> "Failed to resolve host"
      [] OTHER -> HTTPErrorMessage(up.status_code)

Mentions(msg, piece) == \E i \in 1..Len(msg) : msg[i] = piece

NumObs(text) == Len(ObsInOrder(text.Series))

\* An OBS_VALUE attribute that is present, not empty and not a number.
NonNumeric(v) == Truthy(v) /\ Get(v) \notin NumericStrings

\* A document of the expected schema: well-formed, every OBS_VALUE absent,
\* empty or a number.
ValidDocument(text) ==
    /\ text.wellformed
    /\ \A i \in 1..NumObs(text) : ~NonNumeric(ObsInOrder(text.Series)[i].obs.OBS_VALUE)

DataEndpoints == { "bis_credit_table", "bis_credit_chart" }

(***************************************************************************)
(* C1.  Claimed: whenever the upstream payload holds zero observations,    *)
(* every data endpoint (bis_credit_table and bis_credit_chart) answers 404 *)
(* with an error body, never 200 with an empty array.  The table endpoint  *)
(* answers 200 with [].                                                    *)
(***************************************************************************)
C1_EmptyObservationsAnswer404 ==
    ( /\ pc = "done"
      /\ Req.endpoint \in DataEndpoints
      /\ ~TransportFailed(Up)
      /\ Up.text.wellformed
      /\ NumObs(Up.text) = 0 )
    => ( Resp.status_code = 404 /\ Resp.body.kind = "error" )

(***************************************************************************)
(* C2.  Claimed: with every fetcher (fetch_bis_data, fetch_bis_data_simple,*)
(* chart.fetch_bis_data) a transport failure reaches the caller as the one *)
(* wrapped fetch error (HTTPException) carrying the upstream message; no   *)
(* raw requests exception escapes.  fetch_bis_data_simple lets it escape.  *)
(***************************************************************************)
C2_TransportFailureIsWrapped ==
    ( pc = "done" /\ upstream # None /\ TransportFailed(Up) )
    => ( /\ Raised(Get(fetched))
         /\ Exc(Get(fetched)).type = "HTTPException"
         /\ Mentions(Exc(Get(fetched)).detail, UpstreamMessage(Up)) )

(***************************************************************************)
(* C3.  Claimed: at /bis_credit_table, /bis_credit_chart and /bis a fetch  *)
(* failure yields a 5xx response with the upstream detail embedded, never  *)
(* a 2xx.  /bis answers 200; the chart answers a bare 500.                 *)
(***************************************************************************)
C3_FetchFailureAnswers5xxWithDetail ==
    ( pc = "done" /\ upstream # None /\ TransportFailed(Up) )
    => ( /\ Resp.status_code >= 500 /\ Resp.status_code < 600
         /\ Mentions(Resp.body.message, UpstreamMessage(Up)) )

\* The chart handler's parser call returned a frame that is not empty and whose
\* date labels all conform to the period grammar.
ChartDataUsable ==
    /\ pc = "done"
    /\ Req.endpoint = "bis_credit_chart"
    /\ parsed # None
    /\ ~Raised(Get(parsed))
    /\ Val(Get(parsed)) # <<>>
    /\ ~Raised(PeriodIndex_to_timestamp(Val(Get(parsed))))

\* The startdate strings of the model that are no date (pd.to_datetime raises).
NoDateStrings == { "not-a-date" }

\* The rows the chart handler hands to df.pivot.
RowsAtPivot ==
    LET sorted == sort_values(Val(PeriodIndex_to_timestamp(Val(Get(parsed)))))
    IN  IF Truthy(Req.startdate)
        THEN Val(startdate_filter(sorted, Get(Req.startdate)))
        ELSE sorted

\* The positions of the rows that share (Date, Country) with a later row.
Duplicated(rows) ==
    { i \in 1..Len(rows) :
        \E j \in 1..Len(rows) :
            i < j /\ rows[i].Date = rows[j].Date /\ rows[i].Country = rows[j].Country }

\* The value the matrix of a figure holds for (date, country).
Cell(m, date, country) ==
    LET r == CHOOSE r \in 1..Len(m.index) : m.index[r] = date
        c == CHOOSE c \in 1..Len(m.columns) : m.columns[c] = country
    IN  m.values[<<r, c>>]

\* The value of the last of the rows with (date, country).
LastValue(rows, date, country) ==
    LET hits == { i \in 1..Len(rows) : rows[i].Date = date /\ rows[i].Country = country }
    IN  rows[CHOOSE i \in hits : \A j \in hits : j <= i].Value

(***************************************************************************)
(* C4.  Claimed: when the rows handed to the pivot hold two or more rows   *)
(* with the same (date, series key) pair, the pivot succeeds, the matrix   *)
(* cell of the pair holds the value of the last such row, and the request  *)
(* does not fail.  df.pivot raises ValueError and the request ends in 500. *)
(***************************************************************************)
C4_DuplicatePairsLastWins ==
    ( /\ ChartDataUsable
      /\ plot_ts # None
      /\ Req.mode = "total"
      /\ ~(Truthy(Req.startdate) /\ Get(Req.startdate) \in NoDateStrings)
      /\ Duplicated(RowsAtPivot) # {} )
    => ( /\ ~Raised(Get(outcome))
         /\ Resp.status_code = 200
         /\ Resp.body.kind = "figure"
         /\ \A i \in Duplicated(RowsAtPivot) :
               Cell(Resp.body.content.data, RowsAtPivot[i].Date, RowsAtPivot[i].Country)
                   = LastValue(RowsAtPivot, RowsAtPivot[i].Date, RowsAtPivot[i].Country) )

(***************************************************************************)
(* C8.  Claimed: when the upstream body is not parsable XML, the table and *)
(* the chart endpoint handle the parse error and answer with an explicit   *)
(* error response; the parse error never leaves the handler unhandled.     *)
(* Neither handler catches ParseError.                                     *)
(***************************************************************************)
C8_ParseErrorIsHandled ==
    ( /\ pc = "done"
      /\ Req.endpoint \in DataEndpoints
      /\ ~TransportFailed(Up)
      /\ ~Up.text.wellformed )
    => ( /\ ( ~Raised(Get(outcome)) \/ Exc(Get(outcome)).type = "HTTPException" )
         /\ Resp.body.kind \in { "error", "detail" } )

(***************************************************************************)
(* C9.  Claimed: in the table endpoint an observation record that lacks a  *)
(* required field (date, series key or value) is skipped and left out of   *)
(* the response, the other rows are delivered, and the response never      *)
(* holds a row with a missing required field: the rows delivered are       *)
(* exactly the parsed records that have all three, in order.  The parser   *)
(* gives every record all three keys, so no record is ever skipped and a   *)
(* record without a date or a value is delivered.                          *)
(***************************************************************************)
HasRequiredFields(row) == row.Date # None /\ row.Value # None

C9_RowsMissingFieldsAreSkipped ==
    ( /\ pc = "done"
      /\ Req.endpoint = "bis_credit_table"
      /\ parsed # None
      /\ ~Raised(Get(parsed)) )
    => ( /\ Resp.status_code = 200
         /\ Resp.body.kind = "array"
         /\ Resp.body.content = SelectSeq(Val(Get(parsed)), HasRequiredFields) )

(***************************************************************************)
(* C10.  For every chart request whose upstream data is not empty and      *)
(* whose date labels are valid, a startdate that cannot be parsed as a     *)
(* date yields a 400 response with an error body, never a 5xx and never a  *)
(* figure.                                                                 *)
(***************************************************************************)
C10_BadStartdateAnswers400 ==
    ( /\ ChartDataUsable
      /\ Truthy(Req.startdate)
      /\ Get(Req.startdate) \in NoDateStrings )
    => ( /\ ~Raised(Get(outcome))
         /\ Resp.status_code = 400
         /\ Resp.body.kind = "error"
         /\ Resp.body.message[1] = "Invalid startdate: " )

\* Reached: such a request has been answered with 400 although the renderer
\* is missing and the rows hold a duplicate (date, series key) pair.
C10_Witness ==
    /\ ChartDataUsable
    /\ Duplicated(Val(Get(parsed))) # {}
    /\ Truthy(Req.startdate)
    /\ Get(Req.startdate) \in NoDateStrings
    /\ plot_ts = None
    /\ Len(Val(Get(parsed))) = 2
    /\ Resp.status_code = 400

\* The document and the result of a parser run.
Text == Get(upstream).text
Result == Get(parsed)

\* An OBS_VALUE attribute that is absent or empty.
NoValue(v) == ~Truthy(v)

(***************************************************************************)
(* C5.  Claimed: parse_bis_xml returns null as the value of an observation *)
(* whose OBS_VALUE is present but not a number, as it does for an absent   *)
(* value; it does not raise and the other observations of the document are *)
(* returned.  float() raises ValueError and the whole parse fails.         *)
(***************************************************************************)
C5_NonNumericValueIsNull ==
    ( pc = "parsed" /\ Text.wellformed )
    => ( /\ ~Raised(Result)
         /\ Len(Val(Result)) = NumObs(Text)
         /\ \A i \in 1..NumObs(Text) :
               NonNumeric(ObsInOrder(Text.Series)[i].obs.OBS_VALUE)
                   => Val(Result)[i].Value = None )

(***************************************************************************)
(* C6.  For every valid document parse_bis_xml returns one record per Obs  *)
(* element of each Series element (K series of M observations each give    *)
(* K*M records), in document order, without dedup and without sort, and    *)
(* each record carries the BORROWERS_CTY of its Series, or "Unknown" when  *)
(* the attribute is absent.                                                *)
(***************************************************************************)
C6_OneRecordPerObsInOrder ==
    ( pc = "parsed" /\ ValidDocument(Text) )
    => ( /\ ~Raised(Result)
         /\ Len(Val(Result)) = NumObs(Text)
         /\ \A M \in 0..MaxObs :
               ( \A k \in 1..Len(Text.Series) : Len(Text.Series[k].Obs) = M )
                   => Len(Val(Result)) = Len(Text.Series) * M
         /\ \A i \in 1..NumObs(Text) :
               LET o == ObsInOrder(Text.Series)[i]
               IN  /\ Val(Result)[i].Date = o.obs.TIME_PERIOD
                   /\ Val(Result)[i].Country =
                          ( IF o.cty = None THEN "Unknown" ELSE Get(o.cty) ) )

\* Reached: two Series, one of them without BORROWERS_CTY, the first with the
\* same Obs twice, parsed into three records.
C6_Witness ==
    /\ pc = "parsed"
    /\ ValidDocument(Text)
    /\ Len(Text.Series) = 2
    /\ Text.Series[1].BORROWERS_CTY = Some("US")
    /\ Text.Series[2].BORROWERS_CTY = None
    /\ Len(Text.Series[1].Obs) = 2
    /\ Text.Series[1].Obs[1] = Text.Series[1].Obs[2]
    /\ Len(Text.Series[2].Obs) = 1
    /\ Len(Val(Result)) = 3
    /\ Val(Result)[3].Country = "Unknown"

(***************************************************************************)
(* C7.  An Obs element whose OBS_VALUE is absent or empty yields a record  *)
(* with a null value: the parse of the document succeeds and the number of *)
(* records is the number of Obs elements.  Holds for parse_bis_xml of      *)
(* BIS.py and of BISapps.py.                                               *)
(***************************************************************************)
C7_AbsentValueIsNull ==
    /\ ( pc = "parsed" /\ ValidDocument(Text) )
       => ( /\ ~Raised(Result)
            /\ Len(Val(Result)) = NumObs(Text)
            /\ \A i \in 1..NumObs(Text) :
                  NoValue(ObsInOrder(Text.Series)[i].obs.OBS_VALUE)
                      => Val(Result)[i].Value = None )
    /\ ( pc = "parsed_BISapps" /\ ValidDocument(Text) )
       => ( /\ ~Raised(Result)
            /\ Len(Val(Result)) = NumObs(Text)
            /\ \A i \in 1..NumObs(Text) :
                  NoValue(ObsInOrder(Text.Series)[i].obs.OBS_VALUE)
                      => Val(Result)[i].value = None )

\* Reached: a document with an Obs without OBS_VALUE, one with an empty
\* OBS_VALUE and one with a number, parsed into three records.
C7_Witness ==
    /\ pc = "parsed"
    /\ ValidDocument(Text)
    /\ NumObs(Text) = 3
    /\ \E i, j, k \in 1..3 :
          /\ ObsInOrder(Text.Series)[i].obs.OBS_VALUE = None
          /\ ObsInOrder(Text.Series)[j].obs.OBS_VALUE = Some("")
          /\ ObsInOrder(Text.Series)[k].obs.OBS_VALUE = Some("100")
          /\ Val(Result)[i].Value = None
          /\ Val(Result)[j].Value = None
          /\ Val(Result)[k].Value # None
    /\ Len(Val(Result)) = 3

\* The number of positions of a sequence that hold x.
Count(seq, x) == Cardinality({ i \in 1..Len(seq) : seq[i] = x })

\* The row of the chart frame that a parsed record turns into.
Dated(rec) == [Date |-> QuarterStart(Get(rec.Date)), Value |-> rec.Value, Country |-> rec.Country]

\* The startdate strings of the model that are dates, and the date of each.
DateStrings == { "2020-04-01", "2020-07-01" }
DateOf(s) == CASE s = "2020-04-01" -> 20200401 [] s = "2020-07-01" -> 20200701

(***************************************************************************)
(* C11.  The startdate filter keeps exactly the rows whose date (the first *)
(* day of the row's quarter) is greater than or equal to startdate: a row  *)
(* dated startdate is kept, every earlier row is removed, every kept row   *)
(* is kept as often as it occurs, and an absent or empty startdate removes *)
(* nothing.                                                                *)
(***************************************************************************)
C11_StartdateFilterInclusive ==
    ( pc = "filtered" )
    => LET df == Val(Get(parsed))
           sd == Get(request).startdate
           out == Get(outcome)
       IN  /\ ( ~Truthy(sd) )
                 => ( /\ ~Raised(out)
                      /\ Len(Val(out)) = Len(df)
                      /\ \A rec \in FilterRows : Count(Val(out), Dated(rec)) = Count(df, rec) )
           /\ ( Truthy(sd) /\ Get(sd) \in DateStrings )
                 => ( /\ ~Raised(out)
                      /\ \A rec \in FilterRows :
                            Count(Val(out), Dated(rec)) =
                                ( IF QuarterStart(Get(rec.Date)) >= DateOf(Get(sd))
                                  THEN Count(df, rec) ELSE 0 )
                      /\ \A i \in 1..Len(Val(out)) : Val(out)[i].Date >= DateOf(Get(sd)) )

\* Reached: a frame with one row before, one on and one after 2020-04-01,
\* filtered from 2020-04-01 to the two rows on and after it.
C11_Witness ==
    /\ pc = "filtered"
    /\ Get(request).startdate = Some("2020-04-01")
    /\ { Get(Val(Get(parsed))[i].Date) : i \in 1..Len(Val(Get(parsed))) } = PeriodLabels
    /\ ~Raised(Get(outcome))
    /\ Len(Val(Get(outcome))) = 2
    /\ Val(Get(outcome))[1].Date = 20200401
    /\ Val(Get(outcome))[2].Date = 20200701

\* The lag of a percent-change mode.
Lag(mode) == IF mode = "yoy" THEN 4 ELSE 1

\* value / base - 1 as the fraction <<value - base, base>>; null when either is null.
Change(value, base) ==
    IF value = None \/ base = None THEN None
    ELSE Some(<<Get(value) - Get(base), Get(base)>>)

\* The fraction equals num / den.
IsRatio(cell, num, den) == cell # None /\ Get(cell)[1] * den = Get(cell)[2] * num

\* No cell of the column is null.
CompleteColumn(m, c) == \A r \in 1..Len(m.index) : m.values[<<r, c>>] # None

(***************************************************************************)
(* C12.  Claimed: the percent-change transform with lag p (1 for "qoq", 4  *)
(* for "yoy") returns a matrix of the same shape in which the cell at row  *)
(* i >= p (counted from 0) is value[i] / value[i-p] - 1 and every cell at  *)
(* a row i < p is null; so yoy of fewer than 5 rows is all null and yoy of *)
(* [100,102,104,103,110] is 0.10 at the fifth row.  With a pandas that     *)
(* pads by default, a missing value[i] or value[i-p] is replaced by the    *)
(* last value before it and the cell is a number instead of null.          *)
(***************************************************************************)
C12_PercentChangeByLag ==
    ( pc = "transformed" /\ Get(request).mode \in { "qoq", "yoy" } )
    => LET m == Val(Get(pivoted))
           out == Val(Get(outcome)).df_pivot
           p == Lag(Get(request).mode)
       IN  /\ out.index = m.index
           /\ out.columns = m.columns
           /\ DOMAIN out.values = DOMAIN m.values
           /\ \A rc \in DOMAIN m.values :
                 out.values[rc] =
                     ( IF rc[1] <= p THEN None
                       ELSE Change(m.values[rc], m.values[<<rc[1] - p, rc[2]>>]) )
           /\ ( Len(m.index) < 5 /\ p = 4 ) => \A rc \in DOMAIN m.values : out.values[rc] = None
           /\ ( p = 4 /\ Len(m.index) = 5 /\ m.columns = <<"US">>
                /\ [r \in 1..5 |-> m.values[<<r, 1>>]]
                     = <<Some(100), Some(102), Some(104), Some(103), Some(110)>> )
                 => IsRatio(out.values[<<5, 1>>], 1, 10)

\* The same statement for the columns that hold no null: it holds whatever the
\* installed pandas does with missing values.
PercentChangeOfCompleteColumns ==
    ( pc = "transformed" /\ Get(request).mode \in { "qoq", "yoy" } )
    => LET m == Val(Get(pivoted))
           out == Val(Get(outcome)).df_pivot
           p == Lag(Get(request).mode)
       IN  /\ out.index = m.index
           /\ out.columns = m.columns
           /\ DOMAIN out.values = DOMAIN m.values
           /\ \A rc \in DOMAIN m.values :
                 ( rc[1] <= p ) => out.values[rc] = None
           /\ \A rc \in DOMAIN m.values :
                 ( rc[1] > p /\ ( fill_method = None \/ CompleteColumn(m, rc[2]) ) )
                     => out.values[rc] = Change(m.values[rc], m.values[<<rc[1] - p, rc[2]>>])
           /\ ( p = 4 /\ Len(m.index) = 5 /\ m.columns = <<"US">>
                /\ [r \in 1..5 |-> m.values[<<r, 1>>]]
                     = <<Some(100), Some(102), Some(104), Some(103), Some(110)>> )
                 => IsRatio(out.values[<<5, 1>>], 1, 10)

(***************************************************************************)
(* C13.  For every mode other than "yoy" and "qoq", unknown strings        *)
(* included, the chart endpoint hands the pivot matrix and the units label *)
(* of the caller to the renderer unchanged and raises no error; for "yoy"  *)
(* the units label is "YoY % change" and for "qoq" it is "QoQ % change",   *)
(* whatever units the caller supplied.                                     *)
(***************************************************************************)
C13_ModeAndUnitsPassThrough ==
    ( /\ pc = "done"
      /\ Req.endpoint = "bis_credit_chart"
      /\ pivoted # None
      /\ ~Raised(Get(pivoted))
      /\ plot_ts # None )
    => ( /\ ~Raised(Get(outcome))
         /\ Resp.status_code = 200
         /\ Resp.body.kind = "figure"
         /\ ( Req.mode \notin { "yoy", "qoq" } )
               => ( /\ Resp.body.content.data = Val(Get(pivoted))
                    /\ Resp.body.content.yaxis_title = Req.units )
         /\ ( Req.mode = "yoy" ) => Resp.body.content.yaxis_title = "YoY % change"
         /\ ( Req.mode = "qoq" ) => Resp.body.content.yaxis_title = "QoQ % change" )

\* Reached: a chart of two dates drawn for the unknown mode "cagr" with the
\* units of the caller.
C13_Witness ==
    /\ pc = "done"
    /\ Req.endpoint = "bis_credit_chart"
    /\ Req.units = "EUR bn"
    /\ Resp.status_code = 200
    /\ Resp.body.kind = "figure"
    /\ Req.mode = "cagr"
    /\ pivoted # None
    /\ Len(Resp.body.content.data.index) = 2
    /\ Resp.body.content.data.values[<<2, 1>>] = Some(110)
    /\ Resp.body.content.yaxis_title = "EUR bn"

\* The orders in which the rows of a frame of n rows can arrive.
Orders(n) == { f \in [1..n -> 1..n] : \A i, j \in 1..n : f[i] = f[j] => i = j }
Reordered(df, f) == [i \in 1..Len(df) |-> df[f[i]]]

(***************************************************************************)
(* C14.  The pivot matrix of the chart endpoint has one row per distinct   *)
(* date, in strictly ascending order, and one column per distinct series   *)
(* key; each cell holds the value of the input row of that (date, key), or *)
(* null when there is no such row; the matrix depends only on the set of   *)
(* input rows: the same rows in any order give the identical matrix.       *)
(* Stated for frames without a repeated (date, key) pair, which C4 covers. *)
(***************************************************************************)
C14_PivotMatrixIsDetermined ==
    ( pc = "pivoted" /\ Duplicated(Val(Get(parsed))) = {} )
    => LET df == Val(Get(parsed))
           rows == Val(rows_for_pivot(df, Req.startdate))
           m == Val(Get(pivoted))
       IN  /\ ~Raised(Get(pivoted))
           /\ \A r \in 1..(Len(m.index) - 1) : m.index[r] < m.index[r + 1]
           /\ { m.index[r] : r \in 1..Len(m.index) } = { rows[i].Date : i \in 1..Len(rows) }
           /\ \A c, d \in 1..Len(m.columns) : m.columns[c] = m.columns[d] => c = d
           /\ { m.columns[c] : c \in 1..Len(m.columns) } = { rows[i].Country : i \in 1..Len(rows) }
           /\ DOMAIN m.values = (1..Len(m.index)) \X (1..Len(m.columns))
           /\ \A i \in 1..Len(rows) : Cell(m, rows[i].Date, rows[i].Country) = rows[i].Value
           /\ \A rc \in DOMAIN m.values :
                 ( ~\E i \in 1..Len(rows) :
                       rows[i].Date = m.index[rc[1]] /\ rows[i].Country = m.columns[rc[2]] )
                     => m.values[rc] = None
           /\ \A f \in Orders(Len(df)) :
                 pivot(Val(rows_for_pivot(Reordered(df, f), Req.startdate))) = Get(pivoted)

\* Reached: three rows of two dates and two keys, the later date first and the
\* key "US" before "JP", pivoted into a 2 x 2 matrix with one null cell.
C14_Witness ==
    /\ pc = "pivoted"
    /\ Len(Val(Get(parsed))) = 3
    /\ Val(Get(parsed))[1].Date = Some("2020-Q2")
    /\ Val(Get(parsed))[1].Country = "US"
    /\ Val(Get(parsed))[2].Country = "JP"
    /\ Val(Get(parsed))[2].Date = Some("2020-Q1")
    /\ ~Raised(Get(pivoted))
    /\ Val(Get(pivoted)).index = <<20200101, 20200401>>
    /\ Val(Get(pivoted)).columns = <<"JP", "US">>
    /\ \E rc \in DOMAIN Val(Get(pivoted)).values : Val(Get(pivoted)).values[rc] = None
    /\ \E rc \in DOMAIN Val(Get(pivoted)).values : Val(Get(pivoted)).values[rc] = Some(110)

\* The matrix, the chart kind and the result of a renderer run.
Df == Val(Get(pivoted))
Chart == Get(request).chart
Fig == Val(Get(outcome))

(***************************************************************************)
(* C15.  Claimed: for every matrix with N >= 1 columns plot_ts selects a   *)
(* palette of at least N entries, so that a line or bar chart gives column *)
(* i the palette entry at index i for every i < N without failing, also    *)
(* for N above the largest predefined tier; the colour of a column index   *)
(* is the same on every call.  The largest palette has 13 entries and is   *)
(* not extended: with 14 columns colors[13] raises IndexError.             *)
(***************************************************************************)
C15_PaletteCoversEveryColumn ==
    ( pc = "plotted" /\ Chart \in { "line", "bar", "Bar_PCT" } /\ Len(Df.columns) >= 1 )
    => ( /\ ~Raised(Get(outcome))
         /\ Len(Fig.traces) = Len(Df.columns)
         /\ \A i \in 1..Len(Df.columns) :
               /\ Fig.traces[i].name = <<Df.columns[i]>>
               /\ \A m \in WideMatrices :
                     ( i <= Len(m.columns) /\ ~Raised(plot_ts_chart(m, "USD bn", Chart)) )
                         => Val(plot_ts_chart(m, "USD bn", Chart)).traces[i].color
                                = Fig.traces[i].color )

\* The same statement for the matrices of at most 13 columns, where it holds.
PaletteCoversThirteenColumns ==
    ( pc = "plotted" /\ Chart \in { "line", "bar", "Bar_PCT" }
      /\ Len(Df.columns) >= 1 /\ Len(Df.columns) <= 13 )
    => ( /\ ~Raised(Get(outcome))
         /\ Len(Fig.traces) = Len(Df.columns)
         /\ \A i \in 1..Len(Df.columns) : Fig.traces[i].color = Palette13[i] )

\* The rows of the matrix whose first two cells are both present.
Points(df) ==
    SelectSeq([r \in 1..Len(df.index) |-> r],
              LAMBDA r : df.values[<<r, 1>>] # None /\ df.values[<<r, 2>>] # None)

\* The residuals of a fitted line sum to zero, and so do the residuals weighted
\* with x: the normal equations of the least-squares line.
IsLeastSquares(x, y, fit) ==
    /\ Len(fit) = Len(x)
    /\ \A i \in 1..Len(fit) : fit[i][2] # 0
    /\ Sum([i \in 1..Len(x) |-> fit[i][1] - y[i] * fit[i][2]], Len(x)) = 0
    /\ Sum([i \in 1..Len(x) |-> x[i] * (fit[i][1] - y[i] * fit[i][2])], Len(x)) = 0
    /\ \A i, j, k \in 1..Len(x) :
          (fit[j][1] - fit[i][1]) * (x[k] - x[i]) = (fit[k][1] - fit[i][1]) * (x[j] - x[i])

(***************************************************************************)
(* C19.  For the chart kind "regression" plot_ts uses the first two        *)
(* columns only: it drops every row where either is null, adds a scatter   *)
(* of all remaining points, adds a least-squares line only when more than  *)
(* one point remains, and adds a highlighted subset that is the last       *)
(* min(12, n) of the n remaining points in row order; with fewer than two  *)
(* columns it adds no trace and still returns a figure.                    *)
(***************************************************************************)
C19_RegressionChart ==
    ( pc = "plotted" /\ Chart = "regression" )
    => LET pts == Points(Df)
           n == Len(pts)
           xs == [k \in 1..n |-> Get(Df.values[<<pts[k], 1>>])]
           ys == [k \in 1..n |-> Get(Df.values[<<pts[k], 2>>])]
           first == IF n > 12 THEN n - 11 ELSE 1
           t == Fig.traces
       IN  /\ ~Raised(Get(outcome))
           /\ ( Len(Df.columns) < 2 ) => t = <<>>
           /\ ( Len(Df.columns) >= 2 )
                 => ( /\ Len(t) = IF n > 1 THEN 3 ELSE 2
                      /\ t[1].type = "markers" /\ t[1].x = xs /\ t[1].y = ys
                      /\ ( n > 1 )
                            => ( /\ t[2].type = "lines"
                                 /\ t[2].x = xs
                                 /\ IsLeastSquares(xs, ys, t[2].y) )
                      /\ t[Len(t)].name = <<"Latest 12">>
                      /\ Len(t[Len(t)].x) = IF n > 12 THEN 12 ELSE n
                      /\ t[Len(t)].x = [k \in 1..(n - first + 1) |-> xs[first + k - 1]]
                      /\ t[Len(t)].y = [k \in 1..(n - first + 1) |-> ys[first + k - 1]] )

\* Reached: a matrix of three columns and 14 rows, one of them without its
\* second cell, drawn as the scatter of 13 points, the fitted line and the
\* last 12 points.
C19_Witness ==
    /\ pc = "plotted"
    /\ Chart = "regression"
    /\ Len(Df.columns) = 3
    /\ Len(Df.index) = 14
    /\ Len(Points(Df)) = 13
    /\ ~Raised(Get(outcome))
    /\ Len(Fig.traces) = 3
    /\ Len(Fig.traces[1].x) = 13
    /\ Len(Fig.traces[3].x) = 12
    /\ Fig.traces[3].x[1] # Fig.traces[1].x[1]

(***************************************************************************)
(* C17.  The widget registry WIDGETS is written only while the module      *)
(* loads; after startup no request to /widgets.json, /bis_credit_table,    *)
(* /bis_credit_chart or /, in any order or interleaving of the calls,      *)
(* changes the registry or a registered config, and /widgets.json returns  *)
(* the same content on every call.                                         *)
(***************************************************************************)
C17_RegistryIsReadOnly ==
    /\ WIDGETS = LoadedWidgets
    /\ \A t \in Threads :
          /\ ( threads[t].pc = "done" /\ Get(threads[t].request).endpoint = "widgets.json" )
                => ( /\ Get(threads[t].response).status_code = 200
                     /\ Get(threads[t].response).body.content
                            = SetItem(LoadedWidgets, "bis_credit_chart", chart_widget) )
          /\ ( threads[t].pc = "done"
               /\ Get(threads[t].request).endpoint = "main/widgets.json" )
                => ( /\ Get(threads[t].response).status_code = 200
                     /\ Get(threads[t].response).body.content = LoadedWidgets )

\* Reached: while one thread waits for the answer to the GET of a chart call,
\* another has answered /widgets.json of BIS.py with the table widget of the
\* registry and the chart widget, and the registry still holds the table widget
\* only.
C17_Witness ==
    \E t \in Threads, u \in Threads :
        /\ threads[t].pc = "waiting"
        /\ Get(threads[t].request).endpoint = "bis_credit_chart"
        /\ threads[u].pc = "done"
        /\ Get(threads[u].request).endpoint = "widgets.json"
        /\ DOMAIN Get(threads[u].response).body.content
               = { "bis_credit_table", "bis_credit_chart" }
        /\ Get(threads[u].response).body.content["bis_credit_table"].id
               = Some("bis_credit_table")
        /\ DOMAIN WIDGETS = { "bis_credit_table" }

\* A chart request has been handled.
ChartDone == pc = "done" /\ Req.endpoint = "bis_credit_chart"

(***************************************************************************)
(* C16.  Claimed: whenever the renderer is unavailable, every request to   *)
(* the chart endpoint is answered with a 5xx response that carries the     *)
(* 'not available' message, never with a figure, an empty body or another  *)
(* status.  The renderer check is the last one of the handler: a request   *)
(* that fails an earlier step gets the answer of that step.                *)
(***************************************************************************)
C16_NoRendererAnswers5xxAlways ==
    ( ChartDone /\ plot_ts = None )
    => ( /\ Resp.status_code >= 500 /\ Resp.status_code < 600
         /\ Resp.body.kind = "error"
         /\ Resp.body.message = <<NotAvailable>> )

(***************************************************************************)
(* C16, as it holds: whenever the renderer is unavailable, no chart        *)
(* request is answered with a figure or with status 200, and every request *)
(* that passes the fetch, the parse, the no-data check, the date labels,   *)
(* the startdate validation and the pivot is answered with 500 and the     *)
(* 'not available' message.                                                *)
(***************************************************************************)
C16_NoRendererNeverDraws ==
    ( ChartDone /\ plot_ts = None )
    => ( /\ Resp.body.kind # "figure"
         /\ Resp.status_code # 200
         /\ Resp.status_code >= 400
         /\ ( pivoted # None /\ ~Raised(Get(pivoted)) )
               => ( /\ Resp.status_code = 500
                    /\ Resp.body.kind = "error"
                    /\ Resp.body.message = <<NotAvailable>> ) )

\* Reached: without the renderer, a request with data of two dates is answered
\* with 500 and the message.
C16_Witness ==
    /\ ChartDone
    /\ plot_ts = None
    /\ pivoted # None
    /\ ~Raised(Get(pivoted))
    /\ Len(Val(Get(pivoted)).index) = 2
    /\ Resp.status_code = 500
    /\ Resp.body.message = <<NotAvailable>>

(***************************************************************************)
(* C18.  Claimed: the no-data short-circuit guards the pivot: the chart    *)
(* endpoint never runs the pivot on an empty row set, and whenever the     *)
(* rows reaching the pivot are empty (no observation upstream, or every    *)
(* row removed by the startdate filter) the response is the 404 'no data'  *)
(* result, not a 200 figure and not a 500.  The check is made before the   *)
(* filter only: rows emptied by the filter are pivoted and drawn.          *)
(***************************************************************************)
C18_EmptyRowsAnswer404 ==
    ( /\ ChartDone
      /\ parsed # None
      /\ ~Raised(Get(parsed))
      /\ \/ Val(Get(parsed)) = <<>>
         \/ /\ ~Raised(PeriodIndex_to_timestamp(Val(Get(parsed))))
            /\ ~(Truthy(Req.startdate) /\ Get(Req.startdate) \in NoDateStrings)
            /\ RowsAtPivot = <<>> )
    => ( /\ pivoted = None
         /\ Resp.status_code = 404
         /\ Resp.body.kind = "error"
         /\ Resp.body.message = <<"No data returned from BIS.">> )

\* The checks of the chart handler that a request fails, as facts of the
\* request and the upstream answer.
FetchFails == TransportFailed(Up)
ParseFails ==
    \/ ~Up.text.wellformed
    \/ \E i \in 1..NumObs(Up.text) : NonNumeric(ObsInOrder(Up.text.Series)[i].obs.OBS_VALUE)
NoData == NumObs(Up.text) = 0
LabelFails ==
    \E i \in 1..NumObs(Up.text) :
        ObsInOrder(Up.text.Series)[i].obs.TIME_PERIOD \notin { Some(l) : l \in PeriodLabels }
StartdateFails == Truthy(Req.startdate) /\ Get(Req.startdate) \in NoDateStrings
PivotFails == Duplicated(RowsAtPivot) # {}
RendererMissing == plot_ts = None

(***************************************************************************)
(* C20.  In bis_credit_chart the checks run in a fixed order: the fetch,   *)
(* the parse, the empty-data check (404), the date labels, the startdate   *)
(* validation (400), the pivot and transform, the renderer check (500).    *)
(* The response is that of the first check that fails; the outbound GET is *)
(* made before any query parameter is validated; an unparsable startdate   *)
(* with empty data gets 404, with a missing renderer it gets 400.          *)
(***************************************************************************)
C20_ChecksRunInFixedOrder ==
    ChartDone
    => /\ fetched # None
       /\ FetchFails
             => ( /\ Raised(Get(outcome))
                  /\ Exc(Get(outcome)).type \in RequestExceptions
                  /\ parsed = None )
       /\ ( ~FetchFails )
             => /\ parsed # None
                /\ ParseFails
                      => ( Raised(Get(outcome)) /\ Get(outcome) = Get(parsed) )
                /\ ( ~ParseFails /\ NoData )
                      => ( Resp.status_code = 404 /\ pivoted = None )
                /\ ( ~ParseFails /\ ~NoData /\ LabelFails )
                      => ( /\ Raised(Get(outcome))
                           /\ Exc(Get(outcome)).type = "ValueError"
                           /\ pivoted = None )
                /\ ( ~ParseFails /\ ~NoData /\ ~LabelFails /\ StartdateFails )
                      => ( Resp.status_code = 400 /\ pivoted = None )
                /\ ( ~ParseFails /\ ~NoData /\ ~LabelFails /\ ~StartdateFails )
                      => /\ pivoted # None
                         /\ PivotFails
                               => ( Raised(Get(outcome)) /\ Get(outcome) = Get(pivoted) )
                         /\ ( ~PivotFails /\ RendererMissing )
                               => ( /\ Resp.status_code = 500
                                    /\ Resp.body.message = <<NotAvailable>> )
                         /\ ( ~PivotFails /\ ~RendererMissing )
                               => ( Resp.status_code = 200 /\ Resp.body.kind = "figure" )

\* Reached: an unparsable startdate with a missing renderer and data of two
\* rows, answered 400 after the GET and the parse and before the pivot.
C20_Witness ==
    /\ ChartDone
    /\ StartdateFails
    /\ RendererMissing
    /\ fetched # None
    /\ ~Raised(Get(fetched))
    /\ parsed # None
    /\ ~Raised(Get(parsed))
    /\ Len(Val(Get(parsed))) = 2
    /\ pivoted = None
    /\ Resp.status_code = 400

====
